---- MODULE Spec2Model ----
(***************************************************************************)
(* SoundHub: text-to-audio retrieval (soundhub/retrieve.py) and the audio  *)
(* editing wrappers (soundhub/audio.py).                                   *)
(*                                                                         *)
(* retrieve_audio is modelled step by step (one action per external model  *)
(* call) so that the order and number of the calls is observable in `log`. *)
(* The audio wrappers are modelled as one atomic action per call, acting   *)
(* on a small file system `fs` of clips.  A clip is the sequence of its    *)
(* samples at one frame per millisecond, so len(clip) is its duration in   *)
(* milliseconds.                                                           *)
(***************************************************************************)
EXTENDS Integers, Sequences, FiniteSets, TLC

VARIABLES
    folderExists,  \* whether audio_folder denotes an existing directory
    listing,       \* os.listdir(audio_folder): entry names in enumeration order
    top_n,         \* the top_n argument of the running retrieve_audio call
    pc,            \* position of the retrieve_audio call
    audio_files,   \* retrieve.py:43, the candidate paths
    i,             \* 1-based position of the for-loop of retrieve.py:52
    similarities,  \* retrieve.py:49, list of <<audio_file, similarity>>
    log,           \* calls made on clap_model, in order
    result,        \* value returned by retrieve_audio once pc = "returned"
    raised,        \* error propagated out of retrieve_audio, or "none"
    fs,            \* audio files on disk: path -> Some(clip) or NoFile
    lastCall       \* the last call of an audio.py function and its outcome

vars == <<folderExists, listing, top_n, pc, audio_files, i, similarities,
          log, result, raised, fs, lastCall>>

retrieveVars == <<folderExists, listing, top_n, pc, audio_files, i,
                  similarities, log, result, raised>>

audioVars == <<fs, lastCall>>

----------------------------------------------------------------------------
(* Bounds *)

MaxEntries == 3     \* entries in the corpus folder
MaxScore == 2       \* similarity scores are 1..MaxScore
MaxTopN == 4        \* top_n ranges over -1..MaxTopN
MaxDur == 2         \* duration in ms of the clips on disk
MaxPaths == 2       \* length of the audio_paths argument

----------------------------------------------------------------------------
(* Python helpers *)

\* An optional value is a sequence of length at most one: None is empty,
\* Some(x) holds x.
None == <<>>
Some(x) == <<x>>

Min(a, b) == IF a <= b THEN a ELSE b
Max(a, b) == IF a >= b THEN a ELSE b

Reverse(s) == [k \in 1..Len(s) |-> s[Len(s) + 1 - k]]

\* str.endswith: the last Len(suffix) characters of name are suffix.
EndsWith(name, suffix) ==
    /\ Len(name) >= Len(suffix)
    /\ SubSeq(name, Len(name) - Len(suffix) + 1, Len(name)) = suffix

\* s[:n-1], an off-by-one slice.
SliceToShort(s, n) ==
    IF n - 1 >= 0 THEN SubSeq(s, 1, Min(n - 1, Len(s)))
                  ELSE SubSeq(s, 1, Max(Len(s) + n - 1, 0))

\* s[:n] for a list s and an integer n (a negative n counts from the end).
SliceTo(s, n) ==
    IF n >= 0 THEN SubSeq(s, 1, Min(n, Len(s)))
              ELSE SubSeq(s, 1, Max(Len(s) + n, 0))

\* Insert x into the ascending list s behind every element whose key is
\* less than or equal to x's key (the stable position).
RECURSIVE InsertStable(_, _)
InsertStable(s, x) ==
    IF s = <<>> THEN <<x>>
    ELSE IF x[2] < s[1][2] THEN <<x>> \o s
    ELSE <<s[1]>> \o InsertStable(Tail(s), x)

\* Stable ascending sort on the key x[1] of Python, here x[2].
RECURSIVE StableAscending(_)
StableAscending(s) ==
    IF s = <<>> THEN <<>>
    ELSE InsertStable(StableAscending(SubSeq(s, 1, Len(s) - 1)), s[Len(s)])

\* list.sort(key=lambda x: x[1]) without reverse=True.
SortAscending(s) == StableAscending(s)

\* A descending sort that forgets the reversal before sorting: ties come
\* out in reverse enumeration order.
SortDescendingUnstable(s) == Reverse(StableAscending(s))

\* list.sort(key=lambda x: x[1], reverse=True).  CPython reverses the list,
\* sorts it stably in ascending order and reverses it again.
SortDescending(s) == Reverse(StableAscending(Reverse(s)))

----------------------------------------------------------------------------
(* The corpus *)

Wav == <<".", "w", "a", "v">>

EntryNames ==
    { <<"a">> \o Wav, <<"b">> \o Wav, <<"c">> \o Wav,
      <<"n", ".", "m", "p", "3">> }

Scores == 1..MaxScore
TopNs == -1..MaxTopN

\* Directory listings: duplicate-free sequences of entry names.
Listings ==
    { s \in UNION { [1..n -> EntryNames] : n \in 0..MaxEntries } :
        \A j, k \in 1..Len(s) : j # k => s[j] # s[k] }

\* No filter at all: every entry of the folder is a candidate.
FilterNone(s) == s

\* A listing without the entries that do not pass the filter, in order.
RECURSIVE FilterWav(_)
FilterWav(s) ==
    IF s = <<>> THEN <<>>
    ELSE IF EndsWith(s[1], Wav) THEN <<s[1]>> \o FilterWav(Tail(s))
    ELSE FilterWav(Tail(s))

Folder == "corpus"

\* os.path.join(audio_folder, f)
Join(folder, f) == [dir |-> folder, name |-> f]

\* [os.path.join(audio_folder, f) for f in os.listdir(audio_folder)
\*  if f.endswith('.wav')]
AudioFiles(folder, entries) ==
    LET kept == FilterWav(entries)
    IN  [k \in 1..Len(kept) |-> Join(folder, kept[k])]

----------------------------------------------------------------------------
(* Audio files and pydub's AudioSegment *)

NoFile == None

InPaths == {"a.wav", "b.wav", "missing.wav"}
OutPath == "out.wav"
AudioPaths == InPaths \cup {OutPath}

\* Clips of at most MaxDur ms over the given sample values.
ClipsOver(samples) == UNION { [1..n -> samples] : n \in 0..MaxDur }

PathLists == UNION { [1..n -> InPaths] : n \in 0..MaxPaths }
Volumes == {"0.0", "0.5", "1.0"}
StartTimes == 0..MaxDur
Lengths == {None} \cup { Some(n) : n \in (-(MaxDur + 1))..(MaxDur + 1) }

NoCall == [op |-> "none", paths |-> <<>>, out |-> OutPath, volume |-> "1.0",
           trim_length |-> None, start_time |-> 0, end_time |-> None,
           raised |-> "none"]

\* AudioSegment.from_file raises FileNotFoundError for a path with no file.
Exists(path) == fs[path] # NoFile
FromFile(path) == fs[path][1]
AllExist(paths) == \A k \in 1..Len(paths) : Exists(paths[k])

\* AudioSegment._parse_position: a negative position counts from the end.
ParsePosition(seg, val) == IF val < 0 THEN Len(seg) - (-val) ELSE val

\* data[a:b] of Python for any integers a, b.
PySlice(s, a, b) ==
    LET lo == IF a < 0 THEN Max(Len(s) + a, 0) ELSE Min(a, Len(s))
        hi == IF b < 0 THEN Max(Len(s) + b, 0) ELSE Min(b, Len(s))
    IN  SubSeq(s, lo + 1, hi)

\* AudioSegment.__getitem__ for the slice seg[start:end]: both ends are
\* clamped to len(seg), parsed, and the frames between them are taken.
GetSlice(seg, start, end) ==
    PySlice(seg, ParsePosition(seg, Min(start, Len(seg))),
                 ParsePosition(seg, Min(end, Len(seg))))

\* AudioSegment.__add__ with an AudioSegment: append with crossfade=0.
SegAdd(seg1, seg2) == seg1 \o seg2

\* sum over the segments from the last one to the first.
RECURSIVE SumSegmentsReversed(_)
SumSegmentsReversed(segs) ==
    IF Len(segs) = 1 THEN segs[1]
    ELSE SegAdd(segs[Len(segs)],
                SumSegmentsReversed(SubSeq(segs, 1, Len(segs) - 1)))

\* sum(audio_segments) for a non-empty list: 0 + segs[0] is segs[0]
\* (__radd__), every further + is AudioSegment.__add__.
RECURSIVE SumSegments(_)
SumSegments(segs) ==
    IF Len(segs) = 1 THEN segs[1]
    ELSE SegAdd(SumSegments(SubSeq(segs, 1, Len(segs) - 1)), segs[Len(segs)])

\* [AudioSegment.from_file(path) for path in audio_paths], all files found.
LoadAll(paths) == [k \in 1..Len(paths) |-> FromFile(paths[k])]

\* segment.export(output_path, format="wav")
Export(seg, output_path) == fs' = [fs EXCEPT ![output_path] = Some(seg)]

----------------------------------------------------------------------------
(* audio.py *)

Call(op, paths, out, volume, tl, st, et, err) ==
    [op |-> op, paths |-> paths, out |-> out, volume |-> volume,
     trim_length |-> tl, start_time |-> st, end_time |-> et, raised |-> err]

\* Each behaviour makes one call of an audio.py function on the file
\* system chosen by the initial state: the functions keep no state of their
\* own, so a call is determined by its arguments and the files on disk.
NotCalledYet == lastCall = NoCall

\* The end of the trimmed range with the start offset forgotten.
TrimEndNoOffset(audio, trim_length, start_time, end_time) ==
    LET e1 == IF trim_length # None THEN Some(trim_length[1]) ELSE end_time
        e2 == IF e1 = None THEN Len(audio) ELSE e1[1]
    IN  Min(e2, Len(audio))

\* audio.py:43-51, the end_time that trim slices up to.
TrimEnd(audio, trim_length, start_time, end_time) ==
    LET e1 == IF trim_length # None THEN Some(start_time + trim_length[1])
                                    ELSE end_time
        e2 == IF e1 = None THEN Len(audio) ELSE e1[1]
    IN  Min(e2, Len(audio))

\* audio.py:26-55.  Nothing is caught: a missing file raises
\* FileNotFoundError out of from_file.
trim(audio_path, output_path, trim_length, start_time, end_time) ==
    /\ NotCalledYet
    /\ IF ~Exists(audio_path)
          THEN /\ lastCall' = Call("trim", <<audio_path>>, output_path, "1.0",
                                   trim_length, start_time, end_time,
                                   "FileNotFoundError")
               /\ UNCHANGED fs
          ELSE /\ Export(GetSlice(FromFile(audio_path), start_time,
                                  TrimEnd(FromFile(audio_path), trim_length,
                                          start_time, end_time)),
                         output_path)
               /\ lastCall' = Call("trim", <<audio_path>>, output_path, "1.0",
                                   trim_length, start_time, end_time, "none")
    /\ UNCHANGED retrieveVars

\* audio.py:58-76.  Nothing is caught.  sum([]) is the integer 0, which
\* has no export method.
concat(audio_paths, output_path) ==
    /\ NotCalledYet
    /\ IF ~AllExist(audio_paths)
          THEN /\ lastCall' = Call("concat", audio_paths, output_path, "1.0",
                                   None, 0, None, "FileNotFoundError")
               /\ UNCHANGED fs
          ELSE IF audio_paths = <<>>
          THEN /\ lastCall' = Call("concat", audio_paths, output_path, "1.0",
                                   None, 0, None, "AttributeError")
               /\ UNCHANGED fs
          ELSE /\ Export(SumSegments(LoadAll(audio_paths)), output_path)
               /\ lastCall' = Call("concat", audio_paths, output_path, "1.0",
                                   None, 0, None, "none")
    /\ UNCHANGED retrieveVars

\* The outcome of the try block shared by mix and mix_two (audio.py:187-203
\* and 223-241) for the inputs paths: every file is loaded first; with a
\* volume other than 1.0 set_volume is looked up on the segments, a method
\* AudioSegment does not have; the segments are added with +; the sum is
\* exported.  FileNotFoundError is re-raised as such, anything else as
\* Exception.
MixBodyLenient(op, paths, output_path, volume) ==
    LET found == SelectSeq(paths, Exists)
    IN  IF found = <<>> \/ volume # "1.0"
          THEN /\ lastCall' = Call(op, paths, output_path, volume,
                                   None, 0, None, "Exception")
               /\ UNCHANGED fs
          ELSE /\ Export(SumSegments(LoadAll(found)), output_path)
               /\ lastCall' = Call(op, paths, output_path, volume,
                                   None, 0, None, "none")

MixBody(op, paths, output_path, volume) ==
    IF ~AllExist(paths)
      THEN /\ lastCall' = Call(op, paths, output_path, volume,
                               None, 0, None, "FileNotFoundError")
           /\ UNCHANGED fs
      ELSE IF paths = <<>> \/ volume # "1.0"
      THEN /\ lastCall' = Call(op, paths, output_path, volume,
                               None, 0, None, "Exception")
           /\ UNCHANGED fs
      ELSE /\ Export(SumSegments(LoadAll(paths)), output_path)
           /\ lastCall' = Call(op, paths, output_path, volume,
                               None, 0, None, "none")

\* audio.py:171-203
mix(audio_paths, output_path, volume) ==
    /\ NotCalledYet
    /\ MixBody("mix", audio_paths, output_path, volume)
    /\ UNCHANGED retrieveVars

\* audio.py:206-241
mix_two(audio_path1, audio_path2, output_path, volume) ==
    /\ NotCalledYet
    /\ MixBody("mix_two", <<audio_path1, audio_path2>>, output_path, volume)
    /\ UNCHANGED retrieveVars

NextAudio ==
    \/ \E p \in InPaths, tl \in Lengths, st \in StartTimes, et \in Lengths :
          trim(p, OutPath, tl, st, et)
    \/ \E ps \in PathLists : concat(ps, OutPath)
    \/ \E ps \in PathLists, v \in Volumes : mix(ps, OutPath, v)
    \/ \E p1, p2 \in InPaths, v \in Volumes : mix_two(p1, p2, OutPath, v)

InitAudio ==
    /\ folderExists = FALSE
    /\ listing = <<>>
    /\ top_n = 0
    /\ pc = "idle"
    /\ audio_files = <<>>
    /\ i = 0
    /\ similarities = <<>>
    /\ log = <<>>
    /\ result = <<>>
    /\ raised = "none"
    /\ \E a \in ClipsOver({1, 2}), b \in ClipsOver({3}),
          o \in {NoFile, Some(<<4>>)} :
          fs = [p \in AudioPaths |->
                  IF p = "a.wav" THEN Some(a)
                  ELSE IF p = "b.wav" THEN Some(b)
                  ELSE IF p = OutPath THEN o ELSE NoFile]
    /\ lastCall = NoCall

SpecAudio == InitAudio /\ [][NextAudio]_vars

----------------------------------------------------------------------------
(* retrieve_audio, retrieve.py:27-63 *)

\* Entries of the call log: the method of clap_model, its argument and
\* whether the call returned or raised.
Outcome(ok) == IF ok THEN "returned" ELSE "raised"
TextCall == [call |-> "get_text_embeddings", outcome |-> "returned"]
AudioCall(f, ok) ==
    [call |-> "get_audio_embeddings", file |-> f, outcome |-> Outcome(ok)]
SimilarityCall(f, ok) ==
    [call |-> "compute_similarity", file |-> f, outcome |-> Outcome(ok)]

\* The for-loop of retrieve.py:52 has run out of candidates, with an early
\* exit as soon as top_n candidates are scored.
LoopExhaustedEarly == i > Len(audio_files) \/ Len(similarities) >= top_n

\* The for-loop of retrieve.py:52 has run out of candidates.
LoopExhausted == i > Len(audio_files)

\* Lines 40-49: the folder is listed and filtered, then the query text is
\* embedded once.  os.listdir raises when the folder does not exist.
RetrieveStart(n) ==
    /\ pc = "idle"
    /\ top_n' = n
    /\ IF folderExists
          THEN /\ audio_files' = AudioFiles(Folder, listing)
               /\ log' = Append(log, TextCall)
               /\ similarities' = <<>>
               /\ i' = 1
               /\ pc' = "loop"
               /\ UNCHANGED raised
          ELSE /\ pc' = "raised"
               /\ raised' = "not_found"
               /\ UNCHANGED <<audio_files, log, similarities, i>>
    /\ UNCHANGED <<folderExists, listing, result, fs, lastCall>>

\* An audio embedding failure that is swallowed: the candidate is skipped.
RetrieveEmbedIsolated(ok) ==
    /\ pc = "loop"
    /\ ~LoopExhausted
    /\ log' = Append(log, AudioCall(audio_files[i], ok))
    /\ IF ok THEN pc' = "embedded" /\ i' = i
             ELSE pc' = "loop" /\ i' = i + 1
    /\ UNCHANGED <<folderExists, listing, top_n, audio_files,
                   similarities, result, raised, fs, lastCall>>

\* Line 53: the audio embedding of candidate i; the call returns (ok) or
\* raises, and nothing in retrieve_audio catches the error.
RetrieveEmbed(ok) ==
    /\ pc = "loop"
    /\ ~LoopExhausted
    /\ log' = Append(log, AudioCall(audio_files[i], ok))
    /\ IF ok THEN pc' = "embedded" /\ UNCHANGED raised
             ELSE pc' = "raised" /\ raised' = "model_error"
    /\ UNCHANGED <<folderExists, listing, top_n, audio_files, i,
                   similarities, result, fs, lastCall>>

\* Lines 54-55: the similarity of candidate i to the query; the call
\* returns score sc and the pair is appended, or it raises.
RetrieveSimilarity(ok, sc) ==
    /\ pc = "embedded"
    /\ log' = Append(log, SimilarityCall(audio_files[i], ok))
    /\ IF ok THEN /\ similarities' = Append(similarities, <<audio_files[i], sc>>)
                  /\ i' = i + 1
                  /\ pc' = "loop"
                  /\ UNCHANGED raised
             ELSE /\ pc' = "raised"
                  /\ raised' = "model_error"
                  /\ UNCHANGED <<similarities, i>>
    /\ UNCHANGED <<folderExists, listing, top_n, audio_files, result,
                   fs, lastCall>>

\* Lines 58-63: sort in place, keep the paths of the first top_n pairs,
\* return them.
RetrieveFinish ==
    /\ pc = "loop"
    /\ LoopExhausted
    /\ similarities' = SortDescending(similarities)
    /\ result' = [k \in 1..Len(SliceTo(similarities', top_n)) |->
                     SliceTo(similarities', top_n)[k][1]]
    /\ pc' = "returned"
    /\ UNCHANGED <<folderExists, listing, top_n, audio_files, i, log,
                   raised, fs, lastCall>>

NextRetrieve ==
    \/ \E n \in TopNs : RetrieveStart(n)
    \/ \E ok \in BOOLEAN : RetrieveEmbed(ok)
    \/ \E ok \in BOOLEAN, sc \in Scores : RetrieveSimilarity(ok, sc)
    \/ RetrieveFinish

InitRetrieve ==
    /\ folderExists \in BOOLEAN
    /\ listing \in Listings
    /\ top_n = 0
    /\ pc = "idle"
    /\ audio_files = <<>>
    /\ i = 0
    /\ similarities = <<>>
    /\ log = <<>>
    /\ result = <<>>
    /\ raised = "none"
    /\ fs = [p \in AudioPaths |-> NoFile]
    /\ lastCall = NoCall

SpecRetrieve == InitRetrieve /\ [][NextRetrieve]_vars

----------------------------------------------------------------------------
(* Properties of retrieve_audio *)

N == Len(audio_files)
Candidates == { audio_files[k] : k \in 1..N }
Returned == pc = "returned"
ResultSet == { result[k] : k \in 1..Len(result) }

\* The similarity computed for candidate f, and f's enumeration position.
ScoreOf(f) == (CHOOSE p \in { similarities[k] : k \in 1..Len(similarities) } :
                 p[1] = f)[2]
PositionOf(f) == CHOOSE k \in 1..N : audio_files[k] = f

WavNames == { <<"a">> \o Wav, <<"b">> \o Wav, <<"c">> \o Wav }
NoWavEntry == \A k \in 1..Len(listing) : listing[k] \notin WavNames

\* C1: with 0 < top_n < N the result has exactly top_n entries, all distinct
\* candidates, and every returned file scores at least as high as every
\* candidate that is not returned.
C1_TopNBest ==
    (Returned /\ 0 < top_n /\ top_n < N) =>
        /\ Len(result) = top_n
        /\ Cardinality(ResultSet) = top_n
        /\ ResultSet \subseteq Candidates
        /\ \A f \in ResultSet, g \in Candidates \ ResultSet :
              ScoreOf(f) >= ScoreOf(g)

C1_Witness ==
    /\ Returned /\ 0 < top_n /\ top_n < N
    /\ \E f \in ResultSet, g \in Candidates \ ResultSet :
          /\ ScoreOf(f) > ScoreOf(g)
          /\ PositionOf(g) < PositionOf(f)

\* C2: with top_n >= N the result holds all N candidates, each exactly once,
\* in order of non-increasing score; its length is N, not top_n.
C2_AllWhenTopNLarge ==
    (Returned /\ top_n >= N) =>
        /\ Len(result) = N
        /\ ResultSet = Candidates
        /\ \A j, k \in 1..Len(result) : j # k => result[j] # result[k]
        /\ \A j, k \in 1..Len(result) :
              j < k => ScoreOf(result[j]) >= ScoreOf(result[k])

C2_Witness ==
    /\ Returned /\ top_n > N /\ N >= 2
    /\ ScoreOf(audio_files[1]) < ScoreOf(audio_files[2])
    /\ Len(result) = N

\* C3: when the folder exists and no entry name ends in .wav, the call
\* raises nothing, makes no audio-embedding and no similarity call, and
\* returns the empty sequence whatever top_n is.
C3_EmptyCorpus ==
    (folderExists /\ NoWavEntry /\ pc # "idle") =>
        /\ raised = "none"
        /\ pc \in {"loop", "returned"}
        /\ \A k \in 1..Len(log) : log[k].call = "get_text_embeddings"
        /\ Returned => result = <<>>

C3_Witness ==
    /\ folderExists /\ NoWavEntry /\ Len(listing) > 0
    /\ Returned /\ top_n > 0 /\ result = <<>>

\* C8: when an audio-embedding or similarity call raises, it is the last
\* call made (no later candidate is embedded), retrieve_audio has raised
\* that model error and has returned no ranking.
C8_FailureAborts ==
    \A k \in 1..Len(log) :
        log[k].outcome = "raised" =>
            /\ k = Len(log)
            /\ pc = "raised"
            /\ raised = "model_error"
            /\ result = <<>>

C8_Witness ==
    /\ pc = "raised" /\ raised = "model_error" /\ result = <<>>
    /\ Len(similarities) >= 1
    /\ i < N
    /\ log[Len(log)].outcome = "raised"

\* C9: the ranking is determined by the scores and the enumeration order:
\* of two returned files the earlier one has the greater score, or the same
\* score and the earlier enumeration position.
C9_StableTies ==
    Returned =>
        \A j, k \in 1..Len(result) :
            j < k =>
                \/ ScoreOf(result[j]) > ScoreOf(result[k])
                \/ /\ ScoreOf(result[j]) = ScoreOf(result[k])
                   /\ PositionOf(result[j]) < PositionOf(result[k])

C9_Witness ==
    /\ Returned /\ Len(result) >= 3
    /\ ScoreOf(result[2]) = ScoreOf(result[3])
    /\ ScoreOf(result[1]) > ScoreOf(result[2])
    /\ PositionOf(result[1]) > PositionOf(result[3])

\* C10: a call that returns has made exactly one text-embedding call, first,
\* and then for each of the N candidates, in enumeration order, one
\* audio-embedding call followed by one similarity call: 1 + 2N calls.
C10_CallSequence ==
    Returned =>
        /\ Len(log) = 1 + 2 * N
        /\ log[1] = TextCall
        /\ \A k \in 1..N :
              /\ log[2 * k] = AudioCall(audio_files[k], TRUE)
              /\ log[2 * k + 1] = SimilarityCall(audio_files[k], TRUE)

C10_Witness ==
    /\ Returned /\ N >= 2 /\ 0 < top_n /\ top_n < N
    /\ Len(log) = 1 + 2 * N
    /\ Len(result) = top_n

----------------------------------------------------------------------------
(* Properties of the audio.py functions *)

MixOps == {"mix", "mix_two"}

\* The clips named by the last call, as they are on disk, and the clip at
\* its output path.  No call writes to an input path.
NumInputs == Len(lastCall.paths)
InputsExist == \A k \in 1..NumInputs : fs[lastCall.paths[k]] # NoFile
In(k) == fs[lastCall.paths[k]][1]
OutWritten == fs[lastCall.out] # NoFile
Out == fs[lastCall.out][1]

\* Total duration of the first k inputs.
RECURSIVE DurationUpTo(_)
DurationUpTo(k) == IF k = 0 THEN 0 ELSE DurationUpTo(k - 1) + Len(In(k))

\* Sum of the samples of the first k inputs at millisecond t.
RECURSIVE SampleSumUpTo(_, _)
SampleSumUpTo(k, t) == IF k = 0 THEN 0 ELSE SampleSumUpTo(k - 1, t) + In(k)[t]

\* Saturation of a sample value to the 16-bit range of the wav output.
Clip16(x) == Min(Max(x, -32768), 32767)

\* C4: mix and mix_two at volume 1.0 write the sample-wise sum of their
\* inputs: for inputs of one common duration D (a clip mixed with itself
\* in particular) the output has duration D and every sample is the
\* saturated sum of the input samples at that position.
C4_MixSumsSamples ==
    (/\ lastCall.op \in MixOps /\ lastCall.volume = "1.0"
     /\ lastCall.raised = "none"
     /\ \A k \in 1..NumInputs : Len(In(k)) = Len(In(1))) =>
        /\ OutWritten
        /\ Len(Out) = Len(In(1))
        /\ \A t \in 1..Len(Out) : Out[t] = Clip16(SampleSumUpTo(NumInputs, t))

\* C5: concat of a non-empty list of existing clips writes their join in
\* list order: the duration is the sum of the input durations and input k
\* occupies the positions right after the inputs before it.
C5_ConcatJoins ==
    (lastCall.op = "concat" /\ NumInputs > 0 /\ InputsExist) =>
        /\ lastCall.raised = "none"
        /\ OutWritten
        /\ Len(Out) = DurationUpTo(NumInputs)
        /\ \A k \in 1..NumInputs : \A t \in 1..Len(In(k)) :
              Out[DurationUpTo(k - 1) + t] = In(k)[t]

C5_Witness ==
    /\ lastCall.op = "concat" /\ lastCall.raised = "none"
    /\ lastCall.paths = <<"a.wav", "b.wav">>
    /\ Len(In(1)) >= 2 /\ In(1)[1] # In(1)[2] /\ Len(In(2)) >= 1
    /\ Out = In(1) \o In(2)

\* The end of the range as the claim words it: start_time + trim_length
\* when trim_length is given, otherwise end_time, otherwise D.
ClaimedEnd ==
    IF lastCall.trim_length # None
      THEN lastCall.start_time + lastCall.trim_length[1]
      ELSE IF lastCall.end_time # None THEN lastCall.end_time[1]
      ELSE Len(In(1))

\* The samples of the source at start_time <= t < min(end, D).
ClaimedRange ==
    LET hi == Min(ClaimedEnd, Len(In(1)))
    IN  [t \in 1..Max(hi - lastCall.start_time, 0) |->
            In(1)[lastCall.start_time + t]]

TrimCase ==
    /\ lastCall.op = "trim" /\ InputsExist
    /\ lastCall.start_time <= Len(In(1))

C7_MissingInputWritesNothing ==
    [][ (/\ lastCall' # lastCall
         /\ lastCall'.op \in MixOps
         /\ \E k \in 1..Len(lastCall'.paths) : fs[lastCall'.paths[k]] = NoFile)
        => (lastCall'.raised = "FileNotFoundError" /\ fs' = fs) ]_vars

C7_Witness ==
    /\ lastCall.op = "mix" /\ lastCall.raised = "FileNotFoundError"
    /\ NumInputs >= 2
    /\ fs[lastCall.paths[1]] # NoFile
    /\ fs[lastCall.paths[NumInputs]] = NoFile
    /\ fs[lastCall.out] = Some(<<4>>)

\* C11: mix and mix_two called with existing input files and a volume
\* below 1.0 complete without error and write the combined, volume-scaled
\* clip to output_path; at volume 0.0 every sample written is silent.
C11_ScaledMixCompletes ==
    (/\ lastCall.op \in MixOps /\ lastCall.volume # "1.0"
     /\ NumInputs > 0 /\ InputsExist) =>
        /\ lastCall.raised = "none"
        /\ OutWritten
        /\ fs[lastCall.out] # Some(<<4>>)
        /\ lastCall.volume = "0.0" => \A t \in 1..Len(Out) : Out[t] = 0

====
